---- MODULE Spec2Model ----
(***************************************************************************)
(* A model of the autotimer pipeline: extract_jscript (page text           *)
(* collection with cross-page de-duplication) and align_scripts (oracle    *)
(* request with model fallback, fence stripping, JSON parsing and subtitle *)
(* event construction).                                                    *)
(*                                                                         *)
(* Page text is modelled as a sequence of one-character strings and an     *)
(* oracle response as a sequence of tokens (fence marker, newline, list    *)
(* brackets, serialized record, other text), so that splitlines, strip,    *)
(* join, split, rsplit and json.loads are computed, not assumed.           *)
(* SpecExtract runs extract_jscript, SpecAlign runs align_scripts.         *)
(* SpecRetry runs extract_jscript with a log of the oracle invocations,    *)
(* SpecWhisper runs generate_whisper_script with times in milliseconds,    *)
(* and SpecMain runs main repeatedly over the files the runs leave behind. *)
(***************************************************************************)
EXTENDS Integers, Sequences, FiniteSets, TLC

\* ------------------------------------------------------------------ bounds
MaxPages == 3
MaxLinesPerPage == 2
MaxSegs == 2
MaxRecords == 2
MaxTranscript == 2
MaxRuns == 2

\* -------------------------------------------------------- program constants
retries == 3

\* ------------------------------------------------------------ text helpers
NL == "\n"
SP == " "

RECURSIVE Concat(_)
\* the concatenation of a sequence of sequences
Concat(ss) == IF ss = << >> THEN << >> ELSE Head(ss) \o Concat(Tail(ss))

RECURSIVE Join(_, _)
\* sep.join(parts)
Join(parts, sep) ==
    IF parts = << >> THEN << >>
    ELSE IF Len(parts) = 1 THEN parts[1]
    ELSE parts[1] \o sep \o Join(Tail(parts), sep)

\* index of the first NL in s, 0 when there is none
FirstNL(s) ==
    IF \E k \in 1..Len(s) : s[k] = NL
    THEN CHOOSE k \in 1..Len(s) : s[k] = NL /\ \A j \in 1..(k-1) : s[j] # NL
    ELSE 0

RECURSIVE SplitNL(_)
\* s.split("\n"): the pieces between newlines, empty pieces kept
SplitNL(s) ==
    IF FirstNL(s) = 0 THEN << s >>
    ELSE << SubSeq(s, 1, FirstNL(s) - 1) >> \o SplitNL(SubSeq(s, FirstNL(s) + 1, Len(s)))

\* s.splitlines(): like split("\n") but a final newline opens no empty piece
\* and the empty string has no line
SplitLines(s) ==
    IF s = << >> THEN << >>
    ELSE IF s[Len(s)] = NL THEN SplitNL(SubSeq(s, 1, Len(s) - 1))
    ELSE SplitNL(s)

RECURSIVE LStrip(_)
LStrip(s) == IF s # << >> /\ Head(s) = SP THEN LStrip(Tail(s)) ELSE s

RECURSIVE RStrip(_)
RStrip(s) == IF s # << >> /\ s[Len(s)] = SP THEN RStrip(SubSeq(s, 1, Len(s) - 1)) ELSE s

\* line.strip()
Strip(s) == LStrip(RStrip(s))

RECURSIVE StrippedNonEmpty(_)
\* [line.strip() for line in ls if line.strip()]
StrippedNonEmpty(ls) ==
    IF ls = << >> THEN << >>
    ELSE IF Strip(Head(ls)) # << >>
         THEN << Strip(Head(ls)) >> \o StrippedNonEmpty(Tail(ls))
         ELSE StrippedNonEmpty(Tail(ls))

\* line 90: the page's non-empty trimmed lines, in source order
PageLines(raw) == StrippedNonEmpty(SplitLines(raw))

\* ------------------------------------------------- extract_jscript: inputs
\* the raw lines the extraction oracle may put on a page
RawLines == { <<"a">>, <<SP, "a">>, <<"b", SP>>, <<SP>> }

RECURSIVE SeqsUpTo(_, _)
\* all sequences over S of length 0..n
SeqsUpTo(S, n) ==
    IF n = 0 THEN { << >> }
    ELSE SeqsUpTo(S, n - 1) \cup
         { Append(s, x) : s \in { t \in SeqsUpTo(S, n - 1) : Len(t) = n - 1 }, x \in S }

\* response.text of a successful page request
PageRawTexts == { Join(ls, <<NL>>) : ls \in SeqsUpTo(RawLines, MaxLinesPerPage) }

\* line 42: last_line = None
None == << "<None>" >>

\* line 87: f"\n[ERROR: Failed to process page {i+1}]\n"; the marker line is
\* one token that carries the page number
ErrorText(pageNo) == << NL, "[ERROR: Failed to process page " \o ToString(pageNo) \o "]", NL >>

VARIABLES
    \* extract_jscript
    pc_extract,      \* "start", "pages", "done", "raised"
    images,          \* number of page images
    page,            \* index i of the page being processed (0-based)
    attempt,         \* attempt number within the page (0-based)
    last_line,       \* carry-over of the last emitted line
    full_text,       \* list of page_clean_text, one per contributing page
    script_file,     \* content of output_path
    extracted_text,  \* the returned string
    page_lines,      \* history: the value of `lines` for each processed page
    page_ok,         \* history: whether the page's text came from the oracle
    script_exists,   \* whether output_path exists
    ocr_calls,       \* history: the extraction oracle's invocations, in order
    \* align_scripts
    pc_align,        \* "start", "loaded", "fallback", "responded", "done", "raised"
    whisper_data,    \* the loaded recognition segments
    prompt,          \* whisper_text_block as embedded in the request
    oracle_calls,    \* the oracle invocations made, in order
    response,        \* response.text as received
    json_content,    \* the text handed to json.loads
    ass_file,        \* output_path
    debug_file,      \* output_path + ".debug.txt"
    error,           \* the exception that ended the run
    \* generate_whisper_script
    pc_whisper,      \* "start", "loop", "done"
    duration,        \* the duration limit in ms, 0 for None
    segments,        \* list(segments) as transcribed
    seg_idx,         \* number of segments the loop has consumed
    transcript_data, \* the list that is dumped to output_path
    \* main
    pc_main,         \* "idle", "step1", "step2", "extracting", "step3", "ended"
    runs,            \* number of runs of main started
    whisper_file,    \* whisper_json_path: "absent", "partial", "complete"
    script_done,     \* history: the run that created script_text_path returned
    skipped          \* the stages the current run skipped

vars_extract == << pc_extract, images, page, attempt, last_line, full_text,
                   script_file, extracted_text, page_lines, page_ok,
                   script_exists >>

vars_retry == << ocr_calls >>

vars_align == << pc_align, whisper_data, prompt, oracle_calls, response,
                 json_content, ass_file, debug_file, error >>

vars_whisper == << pc_whisper, duration, segments, seg_idx, transcript_data >>

vars_main == << pc_main, runs, whisper_file, script_done, skipped >>

vars == << vars_extract, vars_retry, vars_align, vars_whisper, vars_main >>

\* ---------------------------------------------------- extract_jscript: code
\* a mutant of Keep: the comparison with the last emitted line is lost
KeepAlways(line, last) == TRUE

\* line 93: a line is emitted unless it equals the last emitted line
Keep(line, last) == line # last

\* a mutant of NextLast: the carry-over is never updated
NextLastStale(line, last) == last

\* line 95: the emitted line becomes the carry-over
NextLast(line, last) == line

RECURSIVE Dedup(_, _)
\* lines 91-95: returns <<dedup_lines, last_line>> after the loop
Dedup(lines, last) ==
    IF lines = << >> THEN << << >>, last >>
    ELSE IF Keep(Head(lines), last)
         THEN LET r == Dedup(Tail(lines), NextLast(Head(lines), last))
              IN << << Head(lines) >> \o r[1], r[2] >>
         ELSE Dedup(Tail(lines), last)

\* a mutant of AppendPage: a page without surviving lines is appended too
AppendPageAlways(ft, page_clean_text) == Append(ft, page_clean_text)

\* lines 98-99: a page is appended only when its clean text is not empty
AppendPage(ft, page_clean_text) ==
    IF page_clean_text # << >> THEN Append(ft, page_clean_text) ELSE ft

\* a mutant of AppendFile: the page is written without its final newline
AppendFileNoNewline(f, page_clean_text) ==
    IF page_clean_text # << >> THEN f \o page_clean_text ELSE f

\* lines 98-102: the progressive append to the output file
AppendFile(f, page_clean_text) ==
    IF page_clean_text # << >> THEN f \o page_clean_text \o <<NL>> ELSE f

\* line 104
JoinPages(ft) == Join(ft, <<NL>>)

\* lines 89-102: what the loop body does once page_raw_text is known
ProcessPage(page_raw_text) ==
    LET lines == PageLines(page_raw_text)
        d == Dedup(lines, last_line)
        page_clean_text == Join(d[1], <<NL>>)
    IN /\ last_line' = d[2]
       /\ full_text' = AppendPage(full_text, page_clean_text)
       /\ script_file' = AppendFile(script_file, page_clean_text)
       /\ page_lines' = Append(page_lines, lines)
       /\ page' = page + 1
       /\ attempt' = 0

ExtractFresh ==
    /\ pc_extract = "start"
    /\ images = 0
    /\ page = 0
    /\ attempt = 0
    /\ last_line = None
    /\ full_text = << >>
    /\ script_file = << "<stale>" >>
    /\ script_exists = TRUE
    /\ extracted_text = << >>
    /\ page_lines = << >>
    /\ page_ok = << >>
    /\ ocr_calls = << >>

\* a mutant of Attempts: one attempt more
AttemptsOneMore == 0..retries

\* line 62: for attempt in range(retries)
Attempts == 0..(retries - 1)

\* lines 25-28: no API key
NoKeyStep ==
    /\ pc_extract = "start"
    /\ pc_extract' = "raised"
    /\ UNCHANGED << images, page, attempt, last_line, full_text, script_file,
                    extracted_text, page_lines, page_ok, script_exists >>

\* lines 30-46: convert the PDF to n images, create or clear the output file
StartStep ==
    /\ pc_extract = "start"
    /\ \E n \in 0..MaxPages : images' = n
    /\ script_file' = << >>
    /\ script_exists' = TRUE
    /\ pc_extract' = "pages"
    /\ UNCHANGED << page, attempt, last_line, full_text,
                    extracted_text, page_lines, page_ok >>

\* lines 62-83: an attempt succeeds with one of `texts`; lines 89-102 follow
SucceedStep(texts) ==
    /\ pc_extract = "pages" /\ page < images /\ attempt \in Attempts
    /\ \E raw \in texts : ProcessPage(raw)
    /\ page_ok' = Append(page_ok, TRUE)
    /\ UNCHANGED << pc_extract, images, extracted_text, script_exists >>

\* lines 84-86: an attempt other than the last one raises
FailRetryStep ==
    /\ pc_extract = "pages" /\ page < images
    /\ attempt \in Attempts /\ attempt + 1 \in Attempts
    /\ attempt' = attempt + 1
    /\ UNCHANGED << pc_extract, images, page, last_line, full_text, script_file,
                    extracted_text, page_lines, page_ok, script_exists >>

\* lines 84-87: the last attempt raises; the marker becomes the page text
FailLastStep ==
    /\ pc_extract = "pages" /\ page < images
    /\ attempt \in Attempts /\ attempt + 1 \notin Attempts
    /\ ProcessPage(ErrorText(page + 1))
    /\ page_ok' = Append(page_ok, FALSE)
    /\ UNCHANGED << pc_extract, images, extracted_text, script_exists >>

\* lines 104-114
FinishStep ==
    /\ pc_extract = "pages" /\ page = images
    /\ extracted_text' = JoinPages(full_text)
    /\ pc_extract' = "done"
    /\ UNCHANGED << images, page, attempt, last_line, full_text, script_file,
                    page_lines, page_ok, script_exists >>

\* the variables no step of extract_jscript touches
Elsewhere == << vars_align, vars_main, vars_whisper >>

ExtractNoKey == NoKeyStep /\ UNCHANGED << vars_retry, Elsewhere >>

ExtractStart == StartStep /\ UNCHANGED << vars_retry, Elsewhere >>

OcrSucceed == SucceedStep(PageRawTexts) /\ UNCHANGED << vars_retry, Elsewhere >>

OcrFailRetry == FailRetryStep /\ UNCHANGED << vars_retry, Elsewhere >>

OcrFailLast == FailLastStep /\ UNCHANGED << vars_retry, Elsewhere >>

ExtractFinish == FinishStep /\ UNCHANGED << vars_retry, Elsewhere >>

NextExtract ==
    \/ ExtractNoKey
    \/ ExtractStart
    \/ OcrSucceed
    \/ OcrFailRetry
    \/ OcrFailLast
    \/ ExtractFinish

\* ------------------------------------- extract_jscript: the invocation log
\* response.text of a successful page request, for the runs that log the
\* invocations: a page without text and a page with one line
RetryTexts == { << >>, << "a" >> }

\* one invocation of client.models.generate_content (lines 64-75)
Invocation(ok) == [page |-> page + 1, attempt |-> attempt + 1, ok |-> ok]

Logged(ok) == ocr_calls' = Append(ocr_calls, Invocation(ok))

RetryNoKey == NoKeyStep /\ UNCHANGED << vars_retry, Elsewhere >>

RetryStart == StartStep /\ UNCHANGED << vars_retry, Elsewhere >>

RetrySucceed == SucceedStep(RetryTexts) /\ Logged(TRUE) /\ UNCHANGED Elsewhere

RetryFailRetry == FailRetryStep /\ Logged(FALSE) /\ UNCHANGED Elsewhere

RetryFailLast == FailLastStep /\ Logged(FALSE) /\ UNCHANGED Elsewhere

RetryFinish == FinishStep /\ UNCHANGED << vars_retry, Elsewhere >>

NextRetry ==
    \/ RetryNoKey
    \/ RetryStart
    \/ RetrySucceed
    \/ RetryFailRetry
    \/ RetryFailLast
    \/ RetryFinish

\* --------------------------------------------------- align_scripts: values
\* A JSON value is a number, a string or null.  A number n counts
\* half-milliseconds (n / 2000 seconds), so that the truncation done by
\* int(x * 1000) is visible.
Num(n) == [t |-> "num", n |-> n, s |-> ""]
Str(s) == [t |-> "str", n |-> 0, s |-> s]
Null == [t |-> "null", n |-> 0, s |-> ""]

\* a JSON object holding the keys `has`
Obj(has, start, end, text, actor) ==
    [obj |-> TRUE, has |-> has, start |-> start, end |-> end, text |-> text,
     actor |-> actor]

\* a JSON value that is not an object (a bare number)
Scalar ==
    [obj |-> FALSE, has |-> {}, start |-> Null, end |-> Null, text |-> Null,
     actor |-> Null]

\* the records the oracle may answer with
GoodA == Obj({"start", "end", "text", "actor"}, Num(2000), Num(4000), Str("a"), Str("N"))
GoodB == Obj({"start", "end", "text"}, Num(4000), Num(6000), Str("b"), Null)
ZeroDuration == Obj({"start", "end", "text", "actor"}, Num(2000), Num(2000), Str("a"), Null)
Reversed == Obj({"start", "end", "text", "actor"}, Num(6000), Num(4001), Str("b"), Str(""))
EmptyText == Obj({"start", "end", "text"}, Num(2000), Num(4000), Str(""), Null)
NoFields == Obj({}, Null, Null, Null, Null)
StringStart == Obj({"start", "end", "text"}, Str("abc"), Num(4000), Str("a"), Null)
NullEnd == Obj({"start", "end", "text"}, Num(2000), Null, Str("a"), Null)

Items == { GoodA, GoodB, ZeroDuration, Reversed, EmptyText, NoFields,
           StringStart, NullEnd, Scalar }

\* the tokens of a response text: a fence marker (three backticks), a
\* newline, the brackets of a JSON list, a serialized record, any other text
Tk(k) == [k |-> k, item |-> Scalar]
ItemTok(it) == [k |-> "item", item |-> it]
FENCE == Tk("fence")
NLT == Tk("nl")
LB == Tk("lb")
RB == Tk("rb")
JUNK == Tk("junk")

ListBody(items) == << LB >> \o [k \in 1..Len(items) |-> ItemTok(items[k])] \o << RB >>

Heads == { << >>, << FENCE >>, << FENCE, JUNK, NLT >> }
Tails == { << >>, << FENCE >>, << NLT, FENCE >> }
Bodies ==
    { ListBody(items) : items \in SeqsUpTo(Items, MaxRecords) } \cup
    { << >>, << JUNK >>, << LB, ItemTok(GoodA) >>,
      << LB, NLT, ItemTok(GoodA), NLT, RB >>,
      << LB, NLT, ItemTok(NoFields), NLT, RB >> }

\* response.text of a successful oracle invocation
Responses == { h \o b \o t : h \in Heads, b \in Bodies, t \in Tails }

\* a recognition segment of the Whisper JSON file, holding the keys `has`
Seg(has, id, start, end, text) ==
    [has |-> has, id |-> id, start |-> start, end |-> end, text |-> text]

AllSegKeys == {"id", "start", "end", "text"}
Seg0 == Seg(AllSegKeys, 0, 100, 240, "x")
Seg1 == Seg(AllSegKeys, 1, 250, 390, "y")

SegPool == { Seg0, Seg1,
             Seg(AllSegKeys \ {"start"}, 1, 0, 390, "y"),
             Seg(AllSegKeys \ {"end"}, 0, 100, 0, "x"),
             Seg(AllSegKeys \ {"text"}, 1, 250, 390, "") }

\* ----------------------------------------------------- align_scripts: code
PrimaryModel == "gemini-2.0-flash-lite-preview-02-05"

\* a mutant of FallbackModel: the same model is tried again
FallbackSameModel == PrimaryModel

FallbackModel == "gemini-1.5-flash"

\* a mutant of Subscript: a missing key is coerced, as seg.get(k, 0) would
SubscriptOrDefault(seg, k) == [err |-> "", v |-> seg[k]]

\* line 40: seg[k] raises KeyError when the key is missing
Subscript(seg, k) ==
    IF k \in seg.has THEN [err |-> "", v |-> seg[k]] ELSE [err |-> "KeyError", v |-> seg[k]]

\* line 40: one line of whisper_text_block; the fields are read left to right
BlockLine(seg) ==
    LET id == Subscript(seg, "id")
        st == Subscript(seg, "start")
        en == Subscript(seg, "end")
        tx == Subscript(seg, "text")
    IN IF id.err # "" THEN [err |-> id.err, line |-> << >>]
       ELSE IF st.err # "" THEN [err |-> st.err, line |-> << >>]
       ELSE IF en.err # "" THEN [err |-> en.err, line |-> << >>]
       ELSE IF tx.err # "" THEN [err |-> tx.err, line |-> << >>]
       ELSE [err |-> "",
             line |-> << [id |-> id.v, start |-> st.v, end |-> en.v, text |-> tx.v] >>]

\* a mutant of AddLine: the block is assigned, not extended
ReplaceByLine(block, line) == line

\* line 40: whisper_text_block += line
AddLine(block, line) == block \o line

RECURSIVE BuildBlock(_, _)
\* lines 38-40: whisper_text_block, or the exception of the first bad segment
BuildBlock(data, block) ==
    IF data = << >> THEN [err |-> "", block |-> block]
    ELSE IF BlockLine(Head(data)).err # ""
         THEN [err |-> BlockLine(Head(data)).err, block |-> block]
         ELSE BuildBlock(Tail(data), AddLine(block, BlockLine(Head(data)).line))

HasNLT(text) == \E k \in 1..Len(text) : text[k] = NLT
FirstNLT(text) == CHOOSE k \in 1..Len(text) : text[k] = NLT /\ \A j \in 1..(k - 1) : text[j] # NLT
LastNLT(text) == CHOOSE k \in 1..Len(text) : text[k] = NLT /\ \A j \in (k + 1)..Len(text) : text[j] # NLT

\* lines 98-101: the fence stripping; split("\n", 1)[1] raises IndexError
\* when there is no newline, rsplit("\n", 1)[0] is the whole text then
StripFence(text) ==
    LET lead ==
            IF text # << >> /\ text[1] = FENCE
            THEN IF HasNLT(text)
                 THEN [err |-> "", text |-> SubSeq(text, FirstNLT(text) + 1, Len(text))]
                 ELSE [err |-> "IndexError", text |-> text]
            ELSE [err |-> "", text |-> text]
        t == lead.text
    IN IF lead.err # "" THEN lead
       ELSE IF t # << >> /\ t[Len(t)] = FENCE /\ HasNLT(t)
            THEN [err |-> "", text |-> SubSeq(t, 1, LastNLT(t) - 1)]
            ELSE lead

RECURSIVE NoWhitespace(_)
NoWhitespace(text) ==
    IF text = << >> THEN << >>
    ELSE IF Head(text) = NLT THEN NoWhitespace(Tail(text))
    ELSE << Head(text) >> \o NoWhitespace(Tail(text))

\* line 104: json.loads; whitespace between tokens is skipped; the text must
\* be one JSON value: a list of values, or a single value
ParseJson(text) ==
    LET toks == NoWhitespace(text)
        n == Len(toks)
    IN IF n >= 2 /\ toks[1] = LB /\ toks[n] = RB
          /\ \A k \in 2..(n - 1) : toks[k].k = "item"
       THEN [err |-> "", kind |-> "list", items |-> [k \in 1..(n - 2) |-> toks[k + 1].item]]
       ELSE IF n = 1 /\ toks[1].k = "item"
       THEN [err |-> "", kind |-> IF toks[1].item.obj THEN "object" ELSE "scalar",
             items |-> << toks[1].item >>]
       ELSE [err |-> "JSONDecodeError", kind |-> "", items |-> << >>]

\* item.get(k, d)
Get(item, k, d) == IF k \in item.has THEN item[k] ELSE d

\* lines 120-121: int(x * 1000): a number is truncated to milliseconds,
\* None * 1000 raises TypeError, int("abc" * 1000) raises ValueError
IntMs(v) ==
    IF v.t = "num" THEN [err |-> "", ms |-> v.n \div 2]
    ELSE IF v.t = "null" THEN [err |-> "TypeError", ms |-> 0]
    ELSE [err |-> "ValueError", ms |-> 0]

\* a mutant of ActorName: the trailing `or ""` is lost, null stays None
ActorNameNoOr(item) ==
    LET v == Get(item, "actor", Str("")) IN IF v.t = "null" THEN "<None>" ELSE v.s

\* line 123: item.get("actor", "") or ""
ActorName(item) ==
    LET v == Get(item, "actor", Str("")) IN IF v.t = "str" THEN v.s ELSE ""

\* lines 120-123: the exception the loop body raises on this item, "" if none
ItemError(item) ==
    IF ~item.obj THEN "AttributeError"
    ELSE IF IntMs(Get(item, "start", Num(0))).err # ""
         THEN IntMs(Get(item, "start", Num(0))).err
         ELSE IntMs(Get(item, "end", Num(0))).err

\* lines 120-125: the event built from an item
EventOf(item) ==
    [start |-> IntMs(Get(item, "start", Num(0))).ms,
     end |-> IntMs(Get(item, "end", Num(0))).ms,
     text |-> Get(item, "text", Str("")).s,
     name |-> ActorName(item)]

\* a mutant of AppendEvent: the event is inserted at the front
PrependEvent(events, event) == << event >> \o events

\* line 126: subs.events.append(event)
AppendEvent(events, event) == Append(events, event)

RECURSIVE BuildEvents(_, _)
\* lines 119-126: the loop over aligned_data
BuildEvents(items, events) ==
    IF items = << >> THEN [err |-> "", events |-> events]
    ELSE IF ItemError(Head(items)) # ""
         THEN [err |-> ItemError(Head(items)), events |-> events]
         ELSE BuildEvents(Tail(items), AppendEvent(events, EventOf(Head(items))))

\* lines 119-126 on the parsed value: a list is iterated; iterating a dict
\* yields its keys (strings, without .get); a number is not iterable
BuildAll(parsed) ==
    IF parsed.kind = "list" THEN BuildEvents(parsed.items, << >>)
    ELSE IF parsed.kind = "scalar" THEN [err |-> "TypeError", events |-> << >>]
    ELSE IF parsed.items[1].has = {} THEN [err |-> "", events |-> << >>]
    ELSE [err |-> "AttributeError", events |-> << >>]

NoFile == [written |-> FALSE, content |-> << >>]

AlignIdle ==
    /\ pc_align = "start"
    /\ whisper_data = << >>
    /\ prompt = << >>
    /\ oracle_calls = << >>
    /\ response = << >>
    /\ json_content = << >>
    /\ ass_file = NoFile
    /\ debug_file = NoFile
    /\ error = ""

\* lines 22-25: no API key
AlignNoKey ==
    /\ pc_align = "start"
    /\ pc_align' = "raised"
    /\ error' = "ValueError"
    /\ UNCHANGED << whisper_data, prompt, oracle_calls, response, json_content,
                    ass_file, debug_file, vars_extract,
                    vars_retry, vars_whisper, vars_main >>

\* lines 27-71: load the inputs and build the request
AlignLoad ==
    /\ pc_align = "start"
    /\ \E data \in SeqsUpTo(SegPool, MaxSegs) :
          LET b == BuildBlock(data, << >>)
          IN /\ whisper_data' = data
             /\ IF b.err # ""
                THEN /\ pc_align' = "raised"
                     /\ error' = b.err
                     /\ prompt' = prompt
                ELSE /\ pc_align' = "loaded"
                     /\ error' = error
                     /\ prompt' = b.block
    /\ UNCHANGED << oracle_calls, response, json_content, ass_file, debug_file,
                    vars_extract,
                    vars_retry, vars_whisper, vars_main >>

Call(model, ok) == [model |-> model, contents |-> prompt, ok |-> ok]

\* a mutant of AlignPrimaryOk: the fallback call is made after a success too
AlignPrimaryOkThenFallback ==
    /\ pc_align = "loaded"
    /\ oracle_calls' = Append(oracle_calls, Call(PrimaryModel, TRUE))
    /\ \E r \in Responses : response' = r
    /\ pc_align' = "fallback"
    /\ UNCHANGED << whisper_data, prompt, json_content, ass_file, debug_file,
                    error, vars_extract,
                    vars_retry, vars_whisper, vars_main >>

\* lines 76-83: the primary invocation returns
AlignPrimaryOk ==
    /\ pc_align = "loaded"
    /\ oracle_calls' = Append(oracle_calls, Call(PrimaryModel, TRUE))
    /\ \E r \in Responses : response' = r
    /\ pc_align' = "responded"
    /\ UNCHANGED << whisper_data, prompt, json_content, ass_file, debug_file,
                    error, vars_extract,
                    vars_retry, vars_whisper, vars_main >>

\* lines 76-86: the primary invocation raises
AlignPrimaryFail ==
    /\ pc_align = "loaded"
    /\ oracle_calls' = Append(oracle_calls, Call(PrimaryModel, FALSE))
    /\ pc_align' = "fallback"
    /\ UNCHANGED << whisper_data, prompt, response, json_content, ass_file,
                    debug_file, error, vars_extract,
                    vars_retry, vars_whisper, vars_main >>

\* lines 87-93: the fallback invocation returns
AlignFallbackOk ==
    /\ pc_align = "fallback"
    /\ oracle_calls' = Append(oracle_calls, Call(FallbackModel, TRUE))
    /\ \E r \in Responses : response' = r
    /\ pc_align' = "responded"
    /\ UNCHANGED << whisper_data, prompt, json_content, ass_file, debug_file,
                    error, vars_extract,
                    vars_retry, vars_whisper, vars_main >>

\* lines 87-93: the fallback invocation raises inside the except block
AlignFallbackFail ==
    /\ pc_align = "fallback"
    /\ oracle_calls' = Append(oracle_calls, Call(FallbackModel, FALSE))
    /\ pc_align' = "raised"
    /\ error' = "OracleError"
    /\ UNCHANGED << whisper_data, prompt, response, json_content, ass_file,
                    debug_file, vars_extract,
                    vars_retry, vars_whisper, vars_main >>

\* lines 95-131: strip the fence, parse, build the events, save
AlignParseAndSave ==
    /\ pc_align = "responded"
    /\ LET st == StripFence(response)
           pj == ParseJson(st.text)
           bd == BuildAll(pj)
       IN /\ json_content' = st.text
          /\ IF st.err # ""
             THEN /\ pc_align' = "raised" /\ error' = st.err
                  /\ UNCHANGED << ass_file, debug_file >>
             ELSE IF pj.err # ""
             THEN /\ pc_align' = "raised" /\ error' = pj.err
                  /\ debug_file' = [written |-> TRUE, content |-> st.text]
                  /\ UNCHANGED ass_file
             ELSE IF bd.err # ""
             THEN /\ pc_align' = "raised" /\ error' = bd.err
                  /\ UNCHANGED << ass_file, debug_file >>
             ELSE /\ pc_align' = "done" /\ error' = error
                  /\ ass_file' = [written |-> TRUE, content |-> bd.events]
                  /\ UNCHANGED debug_file
    /\ UNCHANGED << whisper_data, prompt, oracle_calls, response, vars_extract,
                    vars_retry, vars_whisper, vars_main >>

NextAlign ==
    \/ AlignNoKey
    \/ AlignLoad
    \/ AlignPrimaryOk
    \/ AlignPrimaryFail
    \/ AlignFallbackOk
    \/ AlignFallbackFail
    \/ AlignParseAndSave

\* ------------------------------------- generate_whisper_script: inputs
\* Times are milliseconds.  No time used below ends in 5, so that rounding
\* to two decimals never meets a tie.
Word(start, end) == [start |-> start, end |-> end]

Segment(id, start, end, words) ==
    [id |-> id, start |-> start, end |-> end, words |-> words, text |-> "t"]

\* what the recognizer may return, in chronological order: every segment
\* and every word has start < end, and the words lie inside their segment
Recognized == <<
    Segment(1, 1000, 2000, << Word(1000, 1400), Word(1400, 2000) >>),
    Segment(2, 2001, 3004, << >>),
    Segment(3, 3013, 3999, << Word(3013, 3999) >>),
    Segment(4, 5000, 6004, << Word(5000, 6000), Word(6000, 6004) >>),
    Segment(5, 7001, 7004, << >>),
    Segment(6, 9000, 12000, << Word(9000, 11500), Word(11500, 12000) >>),
    Segment(7, 13000, 14000,
            << Word(13000, 13200), Word(13200, 13600), Word(13600, 14000) >>) >>

RECURSIVE Chosen(_, _)
\* the segments of Recognized whose index is in S, from index k on
Chosen(S, k) ==
    IF k > Len(Recognized) THEN << >>
    ELSE IF k \in S THEN << Recognized[k] >> \o Chosen(S, k + 1)
    ELSE Chosen(S, k + 1)

\* list(segments): up to MaxTranscript segments in chronological order
Transcripts ==
    { Chosen(S, 1) : S \in { T \in SUBSET (1..Len(Recognized)) :
                                Cardinality(T) <= MaxTranscript } }

\* the duration argument: None (0), 10 s, 11.111 s
DurationLimits == { 0, 10000, 11111 }

\* ------------------------------------- generate_whisper_script: code
\* round(x, 2): the nearest multiple of 10 ms
Round2(t) == ((t + 5) \div 10) * 10

Max(a, b) == IF a >= b THEN a ELSE b

RECURSIVE SumDurations(_)
\* line 41 and the sum of line 42
SumDurations(words) ==
    IF words = << >> THEN 0
    ELSE (Head(words).end - Head(words).start) + SumDurations(Tail(words))

\* line 42: round(sum(durations) / len(durations), 2) over words[1:]
AvgDuration(words) ==
    LET n == Len(words) - 1
        total == SumDurations(Tail(words))
    IN ((2 * total + 10 * n) \div (20 * n)) * 10

\* lines 35-46
SegmentStart(seg) ==
    IF Len(seg.words) > 1
    THEN Round2(Max(seg.words[1].start, seg.words[1].end - AvgDuration(seg.words)))
    ELSE seg.start

\* lines 48-50
SegmentEnd(seg, limit) ==
    IF limit # 0 /\ Round2(seg.end) > limit THEN limit ELSE Round2(seg.end)

\* lines 52-57
SegmentData(seg, limit) ==
    [id |-> seg.id, start |-> SegmentStart(seg), end |-> SegmentEnd(seg, limit),
     text |-> seg.text]

\* line 31
PastLimit(seg, limit) == limit # 0 /\ seg.start >= limit

WhisperIdle ==
    /\ pc_whisper = "start"
    /\ duration = 0
    /\ segments = << >>
    /\ seg_idx = 0
    /\ transcript_data = << >>

\* the variables no step of generate_whisper_script touches
NotWhisper == << vars_extract, vars_retry, vars_align, vars_main >>

\* lines 19-28
WhisperTranscribe ==
    /\ pc_whisper = "start"
    /\ \E d \in DurationLimits : duration' = d
    /\ \E t \in Transcripts : segments' = t
    /\ pc_whisper' = "loop"
    /\ UNCHANGED << seg_idx, transcript_data, NotWhisper >>

\* lines 30-59: one iteration that does not break
WhisperSegment ==
    /\ pc_whisper = "loop" /\ seg_idx < Len(segments)
    /\ ~PastLimit(segments[seg_idx + 1], duration)
    /\ transcript_data' = Append(transcript_data,
                                 SegmentData(segments[seg_idx + 1], duration))
    /\ seg_idx' = seg_idx + 1
    /\ UNCHANGED << pc_whisper, duration, segments, NotWhisper >>

\* lines 31-32: break
WhisperBreak ==
    /\ pc_whisper = "loop" /\ seg_idx < Len(segments)
    /\ PastLimit(segments[seg_idx + 1], duration)
    /\ pc_whisper' = "save"
    /\ UNCHANGED << duration, segments, seg_idx, transcript_data, NotWhisper >>

\* line 30: the list is exhausted
WhisperExhausted ==
    /\ pc_whisper = "loop" /\ seg_idx = Len(segments)
    /\ pc_whisper' = "save"
    /\ UNCHANGED << duration, segments, seg_idx, transcript_data, NotWhisper >>

\* lines 61-65: transcript_data is dumped and returned
WhisperSave ==
    /\ pc_whisper = "save"
    /\ pc_whisper' = "done"
    /\ UNCHANGED << duration, segments, seg_idx, transcript_data, NotWhisper >>

NextWhisper ==
    \/ WhisperTranscribe
    \/ WhisperSegment
    \/ WhisperBreak
    \/ WhisperExhausted
    \/ WhisperSave

\* ----------------------------------------------------------- main: code
MainIdle ==
    /\ pc_main = "idle"
    /\ runs = 0
    /\ whisper_file = "absent"
    /\ script_done = FALSE
    /\ skipped = {}

\* the output directory holds no intermediate file and nothing has run
MainFresh ==
    /\ pc_extract = "start"
    /\ images = 0
    /\ page = 0
    /\ attempt = 0
    /\ last_line = None
    /\ full_text = << >>
    /\ script_file = << >>
    /\ script_exists = FALSE
    /\ extracted_text = << >>
    /\ page_lines = << >>
    /\ page_ok = << >>
    /\ ocr_calls = << >>

\* the variables no step of main touches
NotMain == << vars_retry, vars_align, vars_whisper >>

\* lines 11-30: a run of main begins; the locals of extract_jscript are
\* those of a call that has not begun, the files are those on disk
MainStart ==
    /\ pc_main \in {"idle", "ended"} /\ runs < MaxRuns
    /\ runs' = runs + 1
    /\ pc_main' = "step1"
    /\ skipped' = {}
    /\ pc_extract' = "start" /\ images' = 0 /\ page' = 0 /\ attempt' = 0
    /\ last_line' = None /\ full_text' = << >> /\ extracted_text' = << >>
    /\ page_lines' = << >> /\ page_ok' = << >>
    /\ UNCHANGED << script_file, script_exists, whisper_file, script_done, NotMain >>

\* lines 31-32
MainWhisperSkip ==
    /\ pc_main = "step1" /\ whisper_file # "absent"
    /\ skipped' = skipped \cup {"whisper"}
    /\ pc_main' = "step2"
    /\ UNCHANGED << runs, whisper_file, script_done, vars_extract, NotMain >>

\* line 34: generate_whisper_script returns (generate_whisper.py 62-65)
MainWhisperRun ==
    /\ pc_main = "step1" /\ whisper_file = "absent"
    /\ whisper_file' = "complete"
    /\ pc_main' = "step2"
    /\ UNCHANGED << runs, script_done, skipped, vars_extract, NotMain >>

\* line 34: generate_whisper_script raises before it opens the file
\* (generate_whisper.py 19-59)
MainWhisperFail ==
    /\ pc_main = "step1" /\ whisper_file = "absent"
    /\ pc_main' = "ended"
    /\ UNCHANGED << runs, whisper_file, script_done, skipped, vars_extract, NotMain >>

\* line 34: the file is open for writing and the dump does not complete
\* (generate_whisper.py 62-63)
MainWhisperFailInDump ==
    /\ pc_main = "step1" /\ whisper_file = "absent"
    /\ whisper_file' = "partial"
    /\ pc_main' = "ended"
    /\ UNCHANGED << runs, script_done, skipped, vars_extract, NotMain >>

\* lines 37-38
MainExtractSkip ==
    /\ pc_main = "step2" /\ script_exists
    /\ skipped' = skipped \cup {"extract"}
    /\ pc_main' = "step3"
    /\ UNCHANGED << runs, whisper_file, script_done, vars_extract, NotMain >>

\* line 40: extract_jscript raises for want of an API key
MainExtractNoKey ==
    /\ pc_main = "step2" /\ ~script_exists
    /\ NoKeyStep
    /\ pc_main' = "ended"
    /\ UNCHANGED << runs, whisper_file, script_done, skipped, NotMain >>

\* line 40: extract_jscript begins and creates the file
MainExtractStart ==
    /\ pc_main = "step2" /\ ~script_exists
    /\ StartStep
    /\ script_done' = FALSE
    /\ pc_main' = "extracting"
    /\ UNCHANGED << runs, whisper_file, skipped, NotMain >>

MainOcrSucceed ==
    /\ pc_main = "extracting"
    /\ SucceedStep(RetryTexts)
    /\ UNCHANGED << vars_main, NotMain >>

MainOcrFailRetry ==
    /\ pc_main = "extracting"
    /\ FailRetryStep
    /\ UNCHANGED << vars_main, NotMain >>

MainOcrFailLast ==
    /\ pc_main = "extracting"
    /\ FailLastStep
    /\ UNCHANGED << vars_main, NotMain >>

\* extract_jscript.py 50-54 and 100-102: the image handling and the append
\* to the file are outside the try block; an exception there ends the call
\* and the run while pages remain
MainExtractAbort ==
    /\ pc_main = "extracting" /\ pc_extract = "pages" /\ page < images
    /\ pc_extract' = "raised"
    /\ pc_main' = "ended"
    /\ UNCHANGED << images, page, attempt, last_line, full_text, script_file,
                    extracted_text, page_lines, page_ok, script_exists,
                    runs, whisper_file, script_done, skipped, NotMain >>

\* line 40: extract_jscript returns
MainExtractFinish ==
    /\ pc_main = "extracting"
    /\ FinishStep
    /\ script_done' = TRUE
    /\ pc_main' = "step3"
    /\ UNCHANGED << runs, whisper_file, skipped, NotMain >>

\* lines 43-45: align_scripts returns or raises; it writes neither
\* intermediate file
MainAlign ==
    /\ pc_main = "step3"
    /\ pc_main' = "ended"
    /\ UNCHANGED << runs, whisper_file, script_done, skipped, vars_extract, NotMain >>

NextMain ==
    \/ MainStart
    \/ MainWhisperSkip
    \/ MainWhisperRun
    \/ MainWhisperFail
    \/ MainWhisperFailInDump
    \/ MainExtractSkip
    \/ MainExtractNoKey
    \/ MainExtractStart
    \/ MainOcrSucceed
    \/ MainOcrFailRetry
    \/ MainOcrFailLast
    \/ MainExtractAbort
    \/ MainExtractFinish
    \/ MainAlign

\* ---------------------------------------------------------- specifications
\* the functions that a specification does not run keep their initial values
InitExtract == ExtractFresh /\ AlignIdle /\ WhisperIdle /\ MainIdle

SpecExtract == InitExtract /\ [][NextExtract]_vars

InitRetry == ExtractFresh /\ AlignIdle /\ WhisperIdle /\ MainIdle

SpecRetry == InitRetry /\ [][NextRetry]_vars

InitAlign == ExtractFresh /\ AlignIdle /\ WhisperIdle /\ MainIdle

SpecAlign == InitAlign /\ [][NextAlign]_vars

InitWhisper == ExtractFresh /\ AlignIdle /\ WhisperIdle /\ MainIdle

SpecWhisper == InitWhisper /\ [][NextWhisper]_vars

InitMain == MainFresh /\ AlignIdle /\ WhisperIdle /\ MainIdle

SpecMain == InitMain /\ [][NextMain]_vars

\* --------------------------------------------- extract_jscript: properties
ExtractDone == pc_extract = "done"

\* the line sequence of a text ("" has no line)
LinesOf(text) == IF text = << >> THEN << >> ELSE SplitNL(text)

RECURSIVE CollapseFrom(_, _)
\* the lines of ls from position k on that differ from their predecessor in ls
CollapseFrom(ls, k) ==
    IF k > Len(ls) THEN << >>
    ELSE (IF k = 1 \/ ls[k] # ls[k - 1] THEN << ls[k] >> ELSE << >>)
         \o CollapseFrom(ls, k + 1)

\* every maximal run of identical consecutive lines collapsed to one
Collapse(ls) == CollapseFrom(ls, 1)

NoAdjacentDup(ls) == \A k \in 1..(Len(ls) - 1) : Strip(ls[k]) # Strip(ls[k + 1])

CountNL(text) == Cardinality({ k \in 1..Len(text) : text[k] = NL })

\* C1: the returned reference text never holds two adjacent lines that are
\* identical after trimming, within a page or across a page boundary, also
\* when pages without surviving lines lie between them.
C1_NoAdjacentDuplicate ==
    ExtractDone => NoAdjacentDup(LinesOf(extracted_text))

\* C1 witness: a line ends page 1 and starts page 3, page 2 has no line, and
\* page 3 also repeats a line within itself.
C1_Witness ==
    /\ ExtractDone /\ Len(page_lines) = 3
    /\ page_lines[1] # << >> /\ page_lines[2] = << >> /\ Len(page_lines[3]) = 2
    /\ page_lines[1][Len(page_lines[1])] = page_lines[3][1]
    /\ page_lines[3][1] = page_lines[3][2]
    /\ Len(LinesOf(extracted_text)) = 1

\* C8 as stated: consecutive contributing pages are separated by a blank
\* line in the returned text.
C8_BlankLineSeparator ==
    ExtractDone => extracted_text = Join(full_text, << NL, NL >>)

\* C8 as amended: consecutive contributing pages are separated by exactly
\* one newline, so the returned text holds no blank line and neither starts
\* nor ends with a newline; a page without surviving line adds nothing: the
\* text has one newline fewer than there are surviving lines.
C8_SingleNewlineSeparator ==
    ExtractDone =>
        /\ \A k \in 1..(Len(extracted_text) - 1) :
               ~(extracted_text[k] = NL /\ extracted_text[k + 1] = NL)
        /\ extracted_text # << >> =>
               /\ extracted_text[1] # NL
               /\ extracted_text[Len(extracted_text)] # NL
               /\ CountNL(extracted_text) = Len(Collapse(Concat(page_lines))) - 1
        /\ extracted_text = << >> => Concat(page_lines) = << >>

\* C8 witness: three pages, two of them contribute, and the one in between
\* had lines that were all dropped.
C8_Witness ==
    /\ ExtractDone /\ Len(page_lines) = 3 /\ Len(full_text) = 2
    /\ page_lines[2] # << >>
    /\ Len(page_lines[1]) = 2 /\ Len(page_lines[3]) = 2

\* C9: the line sequence of the reference text is the fold over all pages in
\* order: the pages' non-empty trimmed lines concatenated, each maximal run
\* of identical consecutive lines collapsed to one.
C9_SequentialFold ==
    ExtractDone => LinesOf(extracted_text) = Collapse(Concat(page_lines))

\* C9 witness: a run of identical lines spans a page boundary and is
\* collapsed, and a line equal to an earlier non-adjacent line is kept.
C9_Witness ==
    /\ ExtractDone /\ Len(page_lines) = 3
    /\ LET all == Concat(page_lines)
           out == LinesOf(extracted_text)
       IN /\ Len(all) = 5 /\ Len(out) = 3
          /\ page_lines[1][Len(page_lines[1])] = page_lines[2][1]
          /\ out[1] = out[3] /\ out[1] # out[2]

\* ----------------------------------------------- align_scripts: properties
\* a response was received and lines 95-131 have run
AlignProcessed ==
    /\ pc_align \in {"done", "raised"}
    /\ oracle_calls # << >>
    /\ oracle_calls[Len(oracle_calls)].ok

RECURSIVE RecordsOf(_)
\* the records of a response text, in the order received
RecordsOf(text) ==
    IF text = << >> THEN << >>
    ELSE IF Head(text).k = "item" THEN << Head(text).item >> \o RecordsOf(Tail(text))
    ELSE RecordsOf(Tail(text))

RECURSIVE IsSubsequence(_, _)
\* a is b with some elements left out, the others in the same order
IsSubsequence(a, b) ==
    IF a = << >> THEN TRUE
    ELSE IF b = << >> THEN FALSE
    ELSE IF Head(a) = Head(b) THEN IsSubsequence(Tail(a), Tail(b))
    ELSE IsSubsequence(a, Tail(b))

\* a contiguous part of b
IsSlice(a, b) ==
    \E i \in 1..(Len(b) + 1) : \E j \in (i - 1)..Len(b) : a = SubSeq(b, i, j)

\* a record with a bad type: not an object, or a start / end that is no number
BadType(item) == ItemError(item) # ""

\* a record that is well-formed and valid
WellFormed(item) ==
    /\ ~BadType(item)
    /\ Get(item, "end", Num(0)).n > Get(item, "start", Num(0)).n
    /\ Get(item, "text", Str("")).s # ""

RECURSIVE WellFormedEvents(_)
WellFormedEvents(items) ==
    IF items = << >> THEN << >>
    ELSE IF WellFormed(Head(items))
         THEN << EventOf(Head(items)) >> \o WellFormedEvents(Tail(items))
         ELSE WellFormedEvents(Tail(items))

\* C2: when the primary invocation raises, the fallback model, a different
\* model, is invoked exactly once with the same request; when the fallback
\* raises too, the error is fatal, there is no third invocation and no
\* subtitle file.
C2_FallbackOnce ==
    /\ Len(oracle_calls) <= 2
    /\ (oracle_calls # << >> /\ ~oracle_calls[1].ok /\ pc_align # "fallback") =>
          /\ Len(oracle_calls) = 2
          /\ oracle_calls[2].model # oracle_calls[1].model
          /\ oracle_calls[2].contents = oracle_calls[1].contents
          /\ ~oracle_calls[2].ok =>
                /\ pc_align = "raised"
                /\ error = "OracleError"
                /\ ~ass_file.written
    /\ (oracle_calls # << >> /\ oracle_calls[1].ok) => Len(oracle_calls) = 1

\* C2 witness: primary and fallback have both raised, on a non-empty request.
C2_Witness ==
    /\ pc_align = "raised" /\ Len(oracle_calls) = 2
    /\ ~oracle_calls[1].ok /\ ~oracle_calls[2].ok
    /\ Len(oracle_calls[1].contents) = 2

\* C3: every event of the saved subtitle track has end > start and a
\* non-empty text.
C3_EventsValid ==
    \A k \in 1..Len(ass_file.content) :
        /\ ass_file.content[k].end > ass_file.content[k].start
        /\ ass_file.content[k].text # ""

\* C4: when json.loads fails, the run fails, no subtitle file is written and
\* the debug file holds the response exactly as received.
C4_RawResponseKept ==
    error = "JSONDecodeError" =>
        /\ pc_align = "raised"
        /\ ~ass_file.written
        /\ debug_file.written
        /\ debug_file.content = response

\* C5: a parsed response of well-formed records and one record with a bad
\* type is not fatal: the subtitle file is written with exactly the
\* well-formed events.
C5_DefectNotFatal ==
    LET st == StripFence(response)
        pj == ParseJson(st.text)
    IN (/\ AlignProcessed
        /\ st.err = "" /\ pj.err = "" /\ pj.kind = "list"
        /\ Cardinality({ k \in 1..Len(pj.items) : BadType(pj.items[k]) }) = 1
        /\ \A k \in 1..Len(pj.items) : BadType(pj.items[k]) \/ WellFormed(pj.items[k]))
       => /\ pc_align = "done"
          /\ ass_file.written
          /\ ass_file.content = WellFormedEvents(pj.items)

\* C6: the fence stripping never raises, hands on a part of the response in
\* which nothing is changed, and leaves a response without leading and
\* trailing fence marker as it is.
C6_FenceStripping ==
    AlignProcessed =>
        /\ error # "IndexError"
        /\ IsSlice(json_content, response)
        /\ (response = << >> \/ (response[1] # FENCE /\ response[Len(response)] # FENCE))
              => json_content = response

\* C7: the events of the subtitle track are a subsequence of the response's
\* records, in the order received: nothing is sorted or reordered.
C7_OrderPreserved ==
    LET recs == RecordsOf(response)
    IN IsSubsequence(ass_file.content, [k \in 1..Len(recs) |-> EventOf(recs[k])])

\* C7 witness: the oracle's records are out of order by start and so are the
\* two events of the saved track.
C7_Witness ==
    /\ pc_align = "done" /\ ass_file.written /\ Len(ass_file.content) = 2
    /\ RecordsOf(response) = << GoodB, GoodA >>
    /\ ass_file.content[1].start > ass_file.content[2].start

\* C10: a transcript with a segment that lacks start, end or text is
\* rejected with an error before any oracle invocation: no request is built,
\* no invocation is made, no subtitle file is written.
C10_MissingFieldRejected ==
    (\E k \in 1..Len(whisper_data) :
        ~({"start", "end", "text"} \subseteq whisper_data[k].has)) =>
        /\ pc_align = "raised"
        /\ error = "KeyError"
        /\ prompt = << >>
        /\ oracle_calls = << >>
        /\ ~ass_file.written

\* C10 witness: the second segment lacks a field, the first one is complete.
C10_Witness ==
    /\ pc_align = "raised" /\ Len(whisper_data) = 2
    /\ whisper_data[1].has = AllSegKeys
    /\ "end" \notin whisper_data[2].has

\* C11: the transcript block of the request holds exactly one entry per
\* recognition segment, in the segments' order, each with the segment's id,
\* start, end and text; every request sent carries that block.
C11_BlockFaithful ==
    error # "KeyError" =>
        /\ Len(prompt) = Len(whisper_data)
        /\ \A k \in 1..Len(prompt) :
              /\ prompt[k].id = whisper_data[k].id
              /\ prompt[k].start = whisper_data[k].start
              /\ prompt[k].end = whisper_data[k].end
              /\ prompt[k].text = whisper_data[k].text
        /\ \A c \in 1..Len(oracle_calls) : oracle_calls[c].contents = prompt

\* C11 witness: two segments that are not in id order were embedded and sent.
C11_Witness ==
    /\ pc_align = "responded"
    /\ whisper_data = << Seg1, Seg0 >>
    /\ Len(prompt) = 2 /\ prompt[1].id = 1 /\ prompt[2].id = 0
    /\ oracle_calls[1].contents = prompt

\* the number of oracle invocations that returned
OkCalls == Cardinality({ c \in 1..Len(oracle_calls) : oracle_calls[c].ok })

\* C12: the oracle is invoked at most twice in a run and exactly once when
\* the primary invocation succeeds; what follows a returned invocation (the
\* fence stripping, a parse failure, a record defect, the save) invokes
\* nothing.
C12_AtMostTwoCalls ==
    /\ Len(oracle_calls) <= 2
    /\ OkCalls <= 1
    /\ \A c \in 1..Len(oracle_calls) : oracle_calls[c].ok => c = Len(oracle_calls)
    /\ pc_align \in {"responded", "done"} => OkCalls = 1
    /\ (pc_align = "raised" /\ error \in {"JSONDecodeError", "IndexError",
                                            "TypeError", "AttributeError"})
          => OkCalls = 1

\* C12 witness: the primary invocation returned, the parse failed, and the
\* run ended with that single invocation.
C12_Witness ==
    /\ pc_align = "raised" /\ error = "JSONDecodeError"
    /\ Len(oracle_calls) = 1 /\ oracle_calls[1].model = PrimaryModel

\* a record whose speaker is absent, null or empty
NoSpeaker(item) ==
    \/ "actor" \notin item.has
    \/ item.actor.t = "null"
    \/ item.actor = Str("")

\* C14: every event of the saved track carries a speaker string; a record
\* whose speaker is absent, null or empty yields an event whose speaker is
\* the empty string, and no event is left out for that reason.
C14_SpeakerNeverOmitted ==
    LET pj == ParseJson(json_content)
    IN (pc_align = "done" /\ pj.kind = "list") =>
          /\ Len(ass_file.content) = Len(pj.items)
          /\ \A k \in 1..Len(pj.items) :
                /\ NoSpeaker(pj.items[k]) => ass_file.content[k].name = ""
                /\ ~NoSpeaker(pj.items[k]) =>
                      ass_file.content[k].name = pj.items[k].actor.s

\* C14 witness: a record with a null speaker, then one without speaker key.
C14_Witness ==
    /\ pc_align = "done"
    /\ RecordsOf(response) = << ZeroDuration, GoodB >>
    /\ Len(ass_file.content) = 2
    /\ ass_file.content[1].name = "" /\ ass_file.content[2].name = ""

\* -------------------------------------- extract_jscript: further properties
\* C13: extract_jscript fails for no page sequence and no pattern of
\* extraction successes and failures, and every line of the text it returns
\* is a trimmed line of the text the extraction oracle returned for some
\* page.
C13_OnlyFilters ==
    /\ pc_extract = "raised" => page_lines = << >>
    /\ ExtractDone =>
          \A k \in 1..Len(LinesOf(extracted_text)) :
              \E p \in 1..Len(page_lines) :
                  /\ page_ok[p]
                  /\ \E j \in 1..Len(page_lines[p]) :
                        page_lines[p][j] = LinesOf(extracted_text)[k]

\* C18: after each page the output file holds exactly the surviving lines of
\* the pages processed so far; it is empty when the first page begins,
\* whatever it held before; at completion it is the returned text followed
\* by one newline, or empty when no line survived.
C18_FileMatchesReturn ==
    /\ (pc_extract = "pages" /\ page = 0) => script_file = << >>
    /\ pc_extract \in {"pages", "done"} =>
          /\ SplitLines(script_file) = Collapse(Concat(page_lines))
          /\ script_file = << >> \/ script_file[Len(script_file)] = NL
    /\ ExtractDone =>
          /\ SplitLines(script_file) = LinesOf(extracted_text)
          /\ script_file = IF extracted_text = << >> THEN << >>
                            ELSE extracted_text \o << NL >>

\* C18 witness: a run over three pages, the second without surviving line,
\* returned two lines and left them in the file.
C18_Witness ==
    /\ ExtractDone /\ images = 3
    /\ page_lines = << << << "a" >> >>, << >>, << << "b" >> >> >>
    /\ extracted_text = << "a", NL, "b" >>
    /\ script_file = << "a", NL, "b", NL >>

\* the invocations made for page p, in order
CallsOf(p) == SelectSeq(ocr_calls, LAMBDA c : c.page = p)

\* the invocations extract_jscript may still make, plus the steps around them
Remaining ==
    CASE pc_extract = "start" -> retries * MaxPages + 2
      [] pc_extract = "pages" -> retries * (images - page) - attempt + 1
      [] OTHER -> 0

RetryLogOrdered ==
    \A k \in 1..(Len(ocr_calls) - 1) :
        \/ /\ ocr_calls[k + 1].page = ocr_calls[k].page
           /\ ocr_calls[k + 1].attempt = ocr_calls[k].attempt + 1
           /\ ~ocr_calls[k].ok
        \/ /\ ocr_calls[k + 1].page = ocr_calls[k].page + 1
           /\ ocr_calls[k + 1].attempt = 1

RetryPerPage ==
    \A p \in 1..page :
        LET cs == CallsOf(p)
        IN /\ Len(cs) >= 1 /\ Len(cs) <= retries
           /\ \A k \in 1..Len(cs) : cs[k].ok => k = Len(cs)
           /\ ~cs[Len(cs)].ok => Len(cs) = retries
           /\ page_ok[p] = cs[Len(cs)].ok

RetryBounded ==
    /\ pc_extract = "raised" => ocr_calls = << >>
    /\ pc_extract # "start" => Len(ocr_calls) <= retries * images
    /\ ExtractDone => page = images
    /\ RetryPerPage
    /\ RetryLogOrdered

\* C15: every page gets between one and three invocations, one after the
\* other, none after the first that succeeds; after a third failure the next
\* page follows and the run goes on, pages are taken in their order, a run
\* over n pages makes at most 3n invocations, and every step brings the run
\* closer to its end.
C15_BoundedSequentialRetries ==
    []RetryBounded /\ [][Remaining' < Remaining]_vars

\* C15 witness: page 1 failed three times, page 2 succeeded at the second
\* attempt, and the run returned after five invocations.
C15_Witness ==
    /\ ExtractDone /\ images = 2
    /\ Len(ocr_calls) = 5
    /\ page_ok = << FALSE, TRUE >>
    /\ ocr_calls[3] = [page |-> 1, attempt |-> 3, ok |-> FALSE]
    /\ ocr_calls[5] = [page |-> 2, attempt |-> 2, ok |-> TRUE]

\* ------------------------------------------------------- main: properties
\* C16: in every run of main, a stage that is skipped because its
\* intermediate file exists finds the file of a run of that stage that ran
\* to completion.
C16_SkippedStageWasCompleted ==
    /\ "whisper" \in skipped => whisper_file = "complete"
    /\ "extract" \in skipped => script_done

\* ------------------------------------ generate_whisper_script: properties
\* C17: every segment written has start < end, with and without a duration
\* limit.
C17_StartBeforeEnd ==
    \A k \in 1..Len(transcript_data) :
        transcript_data[k].start < transcript_data[k].end

\* C19: every start and every end written is a multiple of 0.01 s.
C19_TwoDecimals ==
    \A k \in 1..Len(transcript_data) :
        /\ transcript_data[k].start % 10 = 0
        /\ transcript_data[k].end % 10 = 0

====
